---- MODULE Spec2Model ----
(***************************************************************************)
(* Model of src/app.py: the MetaTrader 5 market-data capture job.          *)
(*                                                                         *)
(* One run of main() is: ensure_workbook_exists, read_tickers, then for    *)
(* every ticker fetch_market_data -> append_data_to_sheet ->               *)
(* update_ticker_status, then update_overview_sheet.  The workbook         *)
(* (finance_data.xlsx) is the persistent state; the MT5 session, the       *)
(* fetched DataFrame and the loop position are the state of a run.         *)
(*                                                                         *)
(* A candle is modelled by its key and the one price the report reads:     *)
(* [time, close].  Times are days 1..MaxTime, closes are 1..MaxClose.      *)
(***************************************************************************)
EXTENDS Integers, Sequences, FiniteSets

\* ---------------------------------------------------------------- bounds
\* Days of the calendar the model covers; a run happens on day `now`.
MaxTime == 3
\* Close prices are 1..MaxClose.
MaxClose == 2
\* Stand-in for NUM_CANDLES (100): the most candles one fetch returns.
NumCandles == 2
\* Stand-in for days=15: the length of the overview's trailing window.
Days == 2

\* --------------------------------------------------------------- config
DEFAULT_TICKER == "XAUUSDm"
\* A second instrument, one the user adds to the Tickers sheet.
OtherTicker == "EURUSDm"
AllTickers == {DEFAULT_TICKER, OtherTicker}
Closes == 1..MaxClose

VARIABLES
    wbExists,      \* os.path.exists(FILE_PATH)
    registry,      \* the Ticker column of the Tickers sheet, top to bottom
    lastUpdated,   \* the Last Updated column: ticker -> day (0: blank)
    data,          \* "<ticker> Data" sheets: ticker -> rows (<<>>: no sheet)
    overview,      \* the Overview sheet: sections, top to bottom
    summary,       \* the Summary sheet: rows 6.. of the ranked table
    now,           \* datetime.now(), in days
    pc,            \* where main() is
    tickers,       \* main's `tickers` list
    i,             \* index of the ticker the loop is at
    df,            \* main's `df`: what fetch_market_data last returned
    session,       \* TRUE while an MT5 session is open
    saved,         \* append_data_to_sheet logged the write (line 113)
    price_changes, \* update_overview_sheet's dict, in insertion order
    ovLog          \* what update_overview_sheet logged in this run

vars == <<wbExists, registry, lastUpdated, data, overview, summary,
          now, pc, tickers, i, df, session, saved, price_changes, ovLog>>

\* ------------------------------------------------------- series helpers
Times(s) == {s[k].time : k \in 1..Len(s)}

Range(s) == {s[k] : k \in 1..Len(s)}

Min(a, b) == IF a < b THEN a ELSE b
Max(a, b) == IF a > b THEN a ELSE b

\* Rows of s at the indices in idx, in the order of s.
RECURSIVE Pick(_, _, _)
Pick(s, idx, k) ==
    IF k > Len(s) THEN <<>>
    ELSE (IF k \in idx THEN <<s[k]>> ELSE <<>>) \o Pick(s, idx, k + 1)

\* DataFrame.drop_duplicates(subset=["time"]): pandas' default keep="first"
\* keeps, for every time, the first row that carries it.
DropDuplicates(s) ==
    Pick(s, {k \in 1..Len(s) : \A j \in 1..(k - 1) : s[j].time # s[k].time}, 1)

\* Insert row r into the ascending sequence s, after the rows with an equal
\* time (a stable sort).
RECURSIVE InsertByTime(_, _)
InsertByTime(r, s) ==
    IF s = <<>> THEN <<r>>
    ELSE IF r.time < Head(s).time THEN <<r>> \o s
    ELSE <<Head(s)>> \o InsertByTime(r, Tail(s))

\* DataFrame.sort_values("time")
RECURSIVE SortValues(_)
SortValues(s) ==
    IF s = <<>> THEN <<>>
    ELSE InsertByTime(s[Len(s)], SortValues(SubSeq(s, 1, Len(s) - 1)))

\* DataFrame.tail(n)
TailRows(s, n) == SubSeq(s, Len(s) - Min(n, Len(s)) + 1, Len(s))

\* ------------------------------------------------------------ the source
\* What mt5.copy_rates_from(ticker, D1, datetime.now(), NUM_CANDLES) can
\* return on day d: the latest k daily bars, k <= NUM_CANDLES, oldest first,
\* one bar per day, with whatever closes the terminal reports today.
Batches(d, prices) ==
    UNION {[(1..k) -> prices] : k \in 1..Min(NumCandles, d)}

Frame(d, b) == [k \in 1..Len(b) |-> [time |-> d - Len(b) + k, close |-> b[k]]]

\* ------------------------------------------------------------- registry
\* read_tickers: the Ticker column, filtered by Status = "Active" when the
\* sheet has a Status column; [] when reading raises.
ReadTickers(exists, rows, off, raises) ==
    IF ~exists \/ raises THEN <<>>
    ELSE SelectSeq(rows, LAMBDA t : t \notin off)

\* main's for loop: the position after the ticker at index k is done.
LoopNext(k, list) ==
    IF k < Len(list) THEN [pc |-> "init", i |-> k + 1]
    ELSE [pc |-> "overview", i |-> 0]

\* As AfterFetch, without the test of line 385.
AfterFetchUnguarded(frame, k, list) == [pc |-> "append", i |-> k]

\* main, lines 384-387: a non-empty frame is appended, an empty one is
\* skipped and the loop goes on.
AfterFetch(frame, k, list) ==
    IF frame # <<>> THEN [pc |-> "append", i |-> k] ELSE LoopNext(k, list)

Init ==
    /\ wbExists = FALSE
    /\ registry = <<>>
    /\ lastUpdated = [t \in AllTickers |-> 0]
    /\ data = [t \in AllTickers |-> <<>>]
    /\ overview = <<>>
    /\ summary = <<>>
    /\ now = 0
    /\ pc = "idle"
    /\ tickers = <<>>
    /\ i = 0
    /\ df = <<>>
    /\ session = FALSE
    /\ saved = FALSE
    /\ price_changes = <<>>
    /\ ovLog = [ran |-> FALSE, io |-> "ok", errors |-> {}]

\* The user edits the Tickers sheet between runs: adds the second ticker.
UserAddsTicker ==
    /\ pc = "idle"
    /\ wbExists
    /\ Len(registry) = 1
    /\ registry' = Append(registry, OtherTicker)
    /\ UNCHANGED <<wbExists, lastUpdated, data, overview, summary, now, pc,
                   tickers, i, df, session, saved, price_changes, ovLog>>

\* main, lines 371-381: ensure_workbook_exists, read_tickers, and the
\* early return on an empty list.  The run happens on day d, `gap` days or
\* more after the run before it (0: also on the same day).  The Status
\* column is the user's: `off` are the tickers it does not mark "Active"
\* when the sheet is read (none when the sheet has no such column).
StartRun(gap) ==
    /\ pc = "idle"
    /\ \E d \in Max(now + gap, 1)..MaxTime, created \in BOOLEAN, raises \in BOOLEAN,
          off \in SUBSET AllTickers :
          LET make == ~wbExists /\ created
              rows == IF make THEN <<DEFAULT_TICKER>> ELSE registry
              list == ReadTickers(wbExists \/ make, rows, off, raises)
          IN  /\ off \subseteq Range(rows)
              /\ now' = d
              /\ wbExists' = (wbExists \/ make)
              /\ registry' = rows
              /\ lastUpdated' = IF make
                                THEN [lastUpdated EXCEPT ![DEFAULT_TICKER] = d]
                                ELSE lastUpdated
              /\ summary' = IF make THEN <<>> ELSE summary
              /\ tickers' = list
              /\ pc' = IF list = <<>> THEN "idle" ELSE "init"
              /\ i' = IF list = <<>> THEN 0 ELSE 1
    /\ df' = <<>>
    /\ saved' = FALSE
    /\ price_changes' = <<>>
    /\ ovLog' = [ran |-> FALSE, io |-> "ok", errors |-> {}]
    /\ UNCHANGED <<data, overview, session>>

\* -------------------------------------------------- fetch_market_data
\* initialize_mt5, lines 31-49.  Outcomes of the terminal:
\*   "ok"             initialize() and account_info() succeed
\*   "init_fails"     initialize() returns False: no session is opened
\*   "no_account"     account_info() is None: the function shuts down
\*   "account_raises" account_info() raises: caught, nothing is shut down
InitOutcomes == {"ok", "init_fails", "no_account", "account_raises"}

SessionAfterInit(o) == o \in {"ok", "account_raises"}

InitializeMt5 ==
    /\ pc = "init"
    /\ \E o \in InitOutcomes : session' = SessionAfterInit(o)
    \* fetch_market_data discards initialize_mt5's result (line 54).
    /\ pc' = "symbol"
    /\ UNCHANGED <<wbExists, registry, lastUpdated, data, overview, summary,
                   now, tickers, i, df, saved, price_changes, ovLog>>

\* mt5.symbol_info, lines 57-61 and the handler at 83-89.  Without a session
\* the call yields None.  Outcomes with a session: "ok", "none", "raises".
SymbolOutcomes == {"ok", "none", "raises"}

\* As SessionAfterSymbol, without the shutdown of line 60.
SessionAfterSymbolLeak(s, o) == s /\ o # "raises"

\* Line 60 (symbol is None) and line 86 (handler) both shut the session down.
SessionAfterSymbol(s, o) == IF s /\ o = "ok" THEN TRUE ELSE FALSE

SymbolInfo ==
    /\ pc = "symbol"
    /\ \E o \in SymbolOutcomes :
          LET found == session /\ o = "ok"
              next == AfterFetch(<<>>, i, tickers)
          IN  /\ session' = SessionAfterSymbol(session, o)
              /\ pc' = IF found THEN "rates" ELSE next.pc
              /\ i' = IF found THEN i ELSE next.i
              /\ df' = IF found THEN df ELSE <<>>
    /\ UNCHANGED <<wbExists, registry, lastUpdated, data, overview, summary,
                   now, tickers, saved, price_changes, ovLog>>

\* mt5.copy_rates_from and the rest of fetch_market_data, lines 64-89.
\*   "raises"   copy_rates_from raises: the handler shuts down
\*   "none"     rates is None or empty: shut down at line 65
\*   "process_raises"  building the frame raises, after line 65
\*   "data"     a batch is returned
RatesOutcomes == {"raises", "none", "process_raises", "data"}

\* Line 65 on the normal path, line 86 in the handler.
SessionAfterRates(o) == FALSE

CopyRates(prices) ==
    /\ pc = "rates"
    /\ \E o \in RatesOutcomes, b \in Batches(now, prices) :
          LET frame == IF o = "data" THEN Frame(now, b) ELSE <<>>
              next == AfterFetch(frame, i, tickers)
          IN  /\ session' = SessionAfterRates(o)
              /\ df' = frame
              /\ pc' = next.pc
              /\ i' = next.i
    /\ UNCHANGED <<wbExists, registry, lastUpdated, data, overview, summary,
                   now, tickers, saved, price_changes, ovLog>>

\* ------------------------------------------------ append_data_to_sheet
\* As MergedFrame, without the sort of line 106.
MergedFrameUnsorted(exists, existing, incoming) ==
    IF exists /\ existing # <<>>
    THEN DropDuplicates(existing \o incoming)
    ELSE incoming

\* As MergedFrame, without the concat of line 104: the sheet is replaced by
\* the fetched rows.
MergedFrameReplaced(exists, existing, incoming) == SortValues(incoming)

\* Lines 100-106: the frame that is written.  With a workbook that holds
\* the ticker's sheet the existing rows come first in the concat, then
\* drop_duplicates, then the sort; otherwise only the sort.
MergedFrame(exists, existing, incoming) ==
    SortValues(IF exists /\ existing # <<>>
               THEN DropDuplicates(existing \o incoming)
               ELSE incoming)

\* Outcomes of the store: "ok"; "read_raises" (read_excel of the existing
\* sheet, line 103); "write_raises" (ExcelWriter / to_excel, lines 108-111).
AppendOutcomes == {"ok", "read_raises", "write_raises"}

\* The ticker's sheet after append_data_to_sheet: the early return on an
\* empty frame (93-95), the handler (114-115), or the merged frame.  Without
\* a workbook the writer is opened with mode="w" and if_sheet_exists, which
\* pandas rejects: the handler logs it and nothing is written.
SheetAfterAppend(exists, existing, incoming, o) ==
    IF incoming = <<>> \/ o # "ok" \/ ~exists THEN existing
    ELSE MergedFrame(exists, existing, incoming)

\* Line 113 is logged exactly when the write went through.
WriteLogged(exists, incoming, o) == incoming # <<>> /\ o = "ok" /\ exists

AppendDataToSheet ==
    /\ pc = "append"
    /\ \E o \in AppendOutcomes :
          LET t == tickers[i] IN
          /\ (o = "read_raises") => data[t] # <<>>
          /\ data' = [data EXCEPT ![t] = SheetAfterAppend(wbExists, data[t], df, o)]
          /\ saved' = WriteLogged(wbExists, df, o)
    \* main, line 387: update_ticker_status follows unconditionally.
    /\ pc' = "status"
    /\ UNCHANGED <<wbExists, registry, lastUpdated, overview, summary, now, df,
                   tickers, i, session, price_changes, ovLog>>

\* ------------------------------------------------ update_ticker_status
\* Lines 165-193: stamp the ticker's row, or add a row for it; nothing is
\* saved when load_workbook or save raises.
StatusOutcomes == {"ok", "raises"}

UpdateTickerStatus ==
    /\ pc = "status"
    /\ \E o \in StatusOutcomes :
          LET t == tickers[i] IN
          /\ lastUpdated' = IF o = "ok"
                            THEN [lastUpdated EXCEPT ![t] = now]
                            ELSE lastUpdated
          /\ registry' = IF o = "ok" /\ t \notin Range(registry)
                         THEN Append(registry, t)
                         ELSE registry
    /\ pc' = LoopNext(i, tickers).pc
    /\ i' = LoopNext(i, tickers).i
    /\ saved' = FALSE
    /\ UNCHANGED <<wbExists, data, overview, summary, now, tickers, df,
                   session, price_changes, ovLog>>

\* ----------------------------------------------- update_overview_sheet
\* As Window, with head(days) for tail(days).
WindowHead(sheet) ==
    SubSeq(SortValues(sheet), 1, Min(Days, Len(sheet)))

\* Line 232: df.sort_values("time").tail(days)
Window(sheet) == TailRows(SortValues(sheet), Days)

\* Lines 236-245: the entry of price_changes for a window of 2 rows or more.
Entry(t, w) ==
    [ticker |-> t,
     first_close |-> w[1].close,
     last_close |-> w[Len(w)].close,
     change |-> w[Len(w)].close - w[1].close]

\* What processing one ticker's section can meet: "ok"; "read_raises"
\* (read_excel, line 227); "render_raises" (anything from line 248 on).
SectionOutcomes == {"ok", "read_raises", "render_raises"}

\* As Sections, with the loop left at the first section that raises.
RECURSIVE SectionsBreak(_, _, _)
SectionsBreak(list, sheets, out) ==
    IF list = <<>> THEN <<>>
    ELSE LET t == Head(list)
             w == TailRows(SortValues(sheets[t]), Days)
         IN  IF sheets[t] = <<>> THEN SectionsBreak(Tail(list), sheets, out)
             ELSE IF out[t] = "read_raises" THEN <<>>
             ELSE IF out[t] = "render_raises"
                  THEN <<[ticker |-> t, rows |-> Len(w), complete |-> FALSE]>>
             ELSE <<[ticker |-> t, rows |-> Len(w), complete |-> TRUE]>>
                  \o SectionsBreak(Tail(list), sheets, out)

\* Lines 220-325, the sections written to the Overview sheet: a ticker with
\* no data sheet is skipped, a ticker whose read raises leaves nothing, one
\* whose rendering raises leaves its header and an unfinished table, and
\* in each case the loop continues with the next ticker.
RECURSIVE Sections(_, _, _)
Sections(list, sheets, out) ==
    IF list = <<>> THEN <<>>
    ELSE LET t == Head(list)
             w == Window(sheets[t])
             here == IF sheets[t] = <<>> \/ out[t] = "read_raises" THEN <<>>
                     ELSE <<[ticker |-> t, rows |-> Len(w),
                             complete |-> out[t] = "ok"]>>
         IN  here \o Sections(Tail(list), sheets, out)

\* Lines 218-245, price_changes in insertion order: an entry for every
\* ticker whose sheet was read and whose window has more than one row.
RECURSIVE PriceChanges(_, _, _)
PriceChanges(list, sheets, out) ==
    IF list = <<>> THEN <<>>
    ELSE LET t == Head(list)
             w == Window(sheets[t])
             here == IF sheets[t] # <<>> /\ out[t] # "read_raises" /\ Len(w) > 1
                     THEN <<Entry(t, w)>>
                     ELSE <<>>
         IN  here \o PriceChanges(Tail(list), sheets, out)

\* The tickers for which line 324 logs an error.
SectionErrors(list, sheets, out) ==
    {t \in Range(list) : sheets[t] # <<>> /\ out[t] # "ok"}

\* change_pct of a is below that of b (change / first_close * 100, compared
\* without dividing: first_close is positive).
PctBelow(a, b) == a.change * b.first_close < b.change * a.first_close

\* Insert e into the ranked sequence s, after the entries that do not rank
\* below it.
RECURSIVE InsertRanked(_, _)
InsertRanked(e, s) ==
    IF s = <<>> THEN <<e>>
    ELSE IF PctBelow(Head(s), e) THEN <<e>> \o s
    ELSE <<Head(s)>> \o InsertRanked(e, Tail(s))

\* Line 347: sorted(price_changes.items(), key=change_pct, reverse=True)
RECURSIVE Ranked(_)
Ranked(entries) ==
    IF entries = <<>> THEN <<>>
    ELSE InsertRanked(entries[Len(entries)],
                      Ranked(SubSeq(entries, 1, Len(entries) - 1)))

\* Lines 328-363: the table rows of the Summary sheet after the call.  The
\* cells of rows 6.. are assigned one by one from the ranked entries; the
\* sheet is not cleared, and nothing is written when price_changes is empty
\* or the workbook has no Summary sheet.
SummaryAfter(old, entries, hasSummary) ==
    IF entries = <<>> \/ ~hasSummary THEN old
    ELSE LET new == Ranked(entries)
         IN  [k \in 1..Max(Len(old), Len(new)) |->
                 IF k <= Len(new) THEN new[k] ELSE old[k]]

\* Outcomes of the workbook itself: "ok"; "load_raises" (line 198);
\* "save_raises" (line 365).  Either is caught at line 367.
OverviewOutcomes == {"ok", "load_raises", "save_raises"}

UpdateOverviewSheet ==
    /\ pc = "overview"
    /\ \E io \in OverviewOutcomes, out \in [Range(tickers) -> SectionOutcomes] :
          LET loaded == io # "load_raises"
              entries == IF loaded THEN PriceChanges(tickers, data, out) ELSE <<>>
          IN  /\ (\A t \in Range(tickers) : data[t] = <<>> => out[t] = "ok")
              /\ loaded \/ (\A t \in Range(tickers) : out[t] = "ok")
              /\ price_changes' = entries
              /\ overview' = IF io = "ok" THEN Sections(tickers, data, out)
                             ELSE overview
              /\ summary' = IF io = "ok"
                            THEN SummaryAfter(summary, entries, wbExists)
                            ELSE summary
              /\ ovLog' = [ran |-> TRUE,
                           io |-> io,
                           errors |-> IF loaded
                                      THEN SectionErrors(tickers, data, out)
                                      ELSE {}]
    /\ pc' = "idle"
    /\ i' = 0
    /\ UNCHANGED <<wbExists, registry, lastUpdated, data, now, tickers, df,
                   session, saved>>

\* One run a day at most over a registry of two instruments; the prices do
\* not matter to the order of the steps, so the terminal reports one price.
Next ==
    \/ UserAddsTicker
    \/ StartRun(1)
    \/ InitializeMt5
    \/ SymbolInfo
    \/ CopyRates({1})
    \/ AppendDataToSheet
    \/ UpdateTickerStatus
    \/ UpdateOverviewSheet

Spec == Init /\ [][Next]_vars

\* Any number of runs a day over the registry the program creates (the
\* default instrument alone), with every price the terminal can report.
NextSeries ==
    \/ StartRun(0)
    \/ InitializeMt5
    \/ SymbolInfo
    \/ CopyRates(Closes)
    \/ AppendDataToSheet
    \/ UpdateTickerStatus
    \/ UpdateOverviewSheet

SpecSeries == Init /\ [][NextSeries]_vars

TypeOK ==
    /\ wbExists \in BOOLEAN
    /\ pc \in {"idle", "init", "symbol", "rates", "append", "status", "overview"}
    /\ now \in 0..MaxTime
    /\ \A t \in AllTickers : lastUpdated[t] \in 0..MaxTime
    /\ session \in BOOLEAN
    /\ saved \in BOOLEAN

\* ================================================================ claims
\* The ticker the loop is at.
Current == tickers[i]

\* s is strictly ascending by time.
StrictlyAscending(s) == \A k \in 1..(Len(s) - 1) : s[k].time < s[k + 1].time

\* C1: merge dedup with last-write-wins.  After a successful
\* append_data_to_sheet of batch B onto the persisted series S, the sheet
\* holds exactly one row per time of S or B, and every row of B is in it
\* (a time in both carries B's values).
C1_MergeLastWriteWins ==
    [][(pc = "append" /\ saved')
       => LET S == data[Current]
              B == df
              R == data'[Current]
          IN  /\ Times(R) = Times(S) \cup Times(B)
              /\ Len(R) = Cardinality(Times(R))
              /\ \A k \in 1..Len(B) : \E j \in 1..Len(R) : R[j] = B[k]]_vars

\* C2: series invariant.  Every data sheet is sorted strictly ascending by
\* time (so no two rows share a time), in every state: after a first write
\* and after every merge into an existing sheet.
C2_SeriesSortedUnique ==
    \A t \in AllTickers : StrictlyAscending(data[t])

\* A write onto an existing sheet went through and the sheet now holds a row
\* for every day: more rows than one fetch returns, so rows were merged.
C2_Witness ==
    /\ pc = "status"
    /\ saved
    /\ Len(data[Current]) = MaxTime

\* C8: a persisted series is never truncated.  No step removes a time from
\* a data sheet.
C8_SeriesOnlyGrows ==
    [][\A t \in AllTickers : Times(data[t]) \subseteq Times(data'[t])]_vars

\* A write went through whose batch overlapped the sheet: the sheet holds
\* the batch's days and at least one older day.
C8_Witness ==
    /\ pc = "status"
    /\ saved
    /\ Len(df) = NumCandles
    /\ Len(data[Current]) > Len(df)
    /\ \E k \in 1..Len(df) : \E j \in 1..Len(data[Current]) :
          /\ data[Current][j].time = df[k].time
          /\ data[Current][j].close # df[k].close

\* C9: summary entries come from the trailing window's literal first and
\* last rows.  Once update_overview_sheet has gone through the sections, for
\* every ticker with a data sheet S whose section did not raise: with W the
\* last min(days, |S|) rows of S, price_changes has an entry for the ticker
\* exactly when W has 2 rows or more, that entry holds the closes of W's
\* earliest and latest rows and their difference, and the saved Overview
\* holds the ticker's section whether or not it has an entry.
C9_EntryFromWindowEnds ==
    (ovLog.ran /\ ovLog.io # "load_raises")
    => \A t \in Range(tickers) :
          (data[t] # <<>> /\ t \notin ovLog.errors)
          => LET S == data[t]
                 n == Min(Days, Len(S))
                 W == [k \in 1..n |-> S[Len(S) - n + k]]
                 mine == {k \in 1..Len(price_changes) :
                             price_changes[k].ticker = t}
             IN  /\ StrictlyAscending(W)
                 /\ (n >= 2) <=> (mine # {})
                 /\ Cardinality(mine) <= 1
                 /\ \A k \in mine :
                       /\ price_changes[k].first_close = W[1].close
                       /\ price_changes[k].last_close = W[n].close
                       /\ price_changes[k].change = W[n].close - W[1].close
                 /\ (ovLog.io = "ok")
                    => \E k \in 1..Len(overview) :
                          /\ overview[k].ticker = t
                          /\ overview[k].rows = n
                          /\ overview[k].complete

\* The overview was built over a series longer than the window whose oldest
\* row differs in price from the window's first row, and the entry records
\* a change.
C9_Witness ==
    /\ ovLog.ran
    /\ ovLog.io = "ok"
    /\ ovLog.errors = {}
    /\ Len(data[DEFAULT_TICKER]) > Days
    /\ data[DEFAULT_TICKER][1].close # data[DEFAULT_TICKER][2].close
    /\ Len(price_changes) = 1
    /\ price_changes[1].change # 0

\* A step in which fetch_market_data returns zero candles: symbol_info
\* yields nothing, or copy_rates_from and the frame building yield nothing.
EmptyFetchStep ==
    \/ pc = "symbol" /\ pc' # "rates"
    \/ pc = "rates" /\ df' = <<>>

\* C3: an empty fetch is a no-op for that ticker.  The step in which the
\* fetch returns zero candles changes no data sheet and no Last Updated
\* cell and takes the loop to the next ticker's fetch (to the overview
\* after the last ticker); append_data_to_sheet is reached only with a
\* frame that has rows.
C3_EmptyFetchNoOp ==
    [][/\ EmptyFetchStep
          => /\ data' = data
             /\ lastUpdated' = lastUpdated
             /\ IF i < Len(tickers)
                THEN pc' = "init" /\ i' = i + 1
                ELSE pc' = "overview"
       /\ (pc' = "append") => (df' # <<>>)]_vars

\* The loop is at the second ticker's fetch after the first ticker's fetch
\* returned zero candles, the first ticker having a data sheet and a stamp
\* from an earlier run.
C3_Witness ==
    /\ pc = "init"
    /\ i = 2
    /\ df = <<>>
    /\ data[tickers[1]] # <<>>
    /\ lastUpdated[tickers[1]] > 0
    /\ lastUpdated[tickers[1]] < now

\* C4: a connection failure during initialization aborts the run.  Once
\* initialize_mt5 has failed (no session after it), no further ticker is
\* fetched.
C4_InitFailureAborts ==
    [][(pc = "symbol" /\ ~session) => pc' # "init"]_vars

\* C5: the session is a scoped resource.  Outside fetch_market_data (at the
\* start of each ticker's fetch, during append, status update and overview,
\* and between runs) no session is open.
C5_SessionScoped ==
    (pc \notin {"symbol", "rates"}) => ~session

\* The last ticker's fetch returned zero candles and the loop has ended.
C5_Witness ==
    /\ pc = "overview"
    /\ Len(tickers) = 2
    /\ df = <<>>
    /\ ~session

\* C6: per-instrument failure isolation.  Whatever a ticker's step meets,
\* the run goes on: initialization is followed by the symbol lookup, the
\* fetch by the append or the next ticker, the append by the status update,
\* the status update by the next ticker (the overview after the last one);
\* the overview is built, and when the workbook is saved every ticker with
\* a data sheet whose own section did not raise has its complete section.
C6_FailureIsolation ==
    [][/\ (pc = "init") => (pc' = "symbol" /\ i' = i)
       /\ (pc \in {"symbol", "rates"})
          => \/ pc' \in {"rates", "append"} /\ i' = i
             \/ pc' = "init" /\ i < Len(tickers) /\ i' = i + 1
             \/ pc' = "overview" /\ i = Len(tickers)
       /\ (pc = "append") => (pc' = "status" /\ i' = i)
       /\ (pc = "status")
          => \/ pc' = "init" /\ i < Len(tickers) /\ i' = i + 1
             \/ pc' = "overview" /\ i = Len(tickers)
       /\ (pc = "overview")
          => /\ pc' = "idle"
             /\ ovLog'.ran
             /\ (ovLog'.io = "ok")
                => \A t \in Range(tickers) :
                      (data[t] # <<>> /\ t \notin ovLog'.errors)
                      => \E k \in 1..Len(overview') :
                            /\ overview'[k].ticker = t
                            /\ overview'[k].complete]_vars

\* The overview was saved after the first ticker's section raised, and the
\* second ticker has its complete section.
C6_Witness ==
    /\ ovLog.ran
    /\ ovLog.io = "ok"
    /\ Len(tickers) = 2
    /\ ovLog.errors = {tickers[1]}
    /\ \E k \in 1..Len(overview) :
          overview[k].ticker = tickers[2] /\ overview[k].complete

\* C7: the Summary sheet is rebuilt on each run.  Once
\* update_overview_sheet has saved the workbook, the ranked table holds
\* exactly one row per entry of this run's price_changes and no other row.
C7_SummaryRebuilt ==
    (ovLog.ran /\ ovLog.io = "ok")
    => /\ Len(summary) = Len(price_changes)
       /\ {summary[k].ticker : k \in 1..Len(summary)}
          = {price_changes[k].ticker : k \in 1..Len(price_changes)}

\* C10: the registry update follows a successful persist.  The Last Updated
\* cell of a row of the registry changes only in the status update of that
\* ticker, and only when the ticker's write went through in this run.
C10_StampOnlyAfterPersist ==
    [][\A t \in Range(registry) :
          (lastUpdated'[t] # lastUpdated[t])
          => (pc = "status" /\ t = Current /\ saved)]_vars

====
